---------------------------- MODULE Spec2Model ----------------------------
(***************************************************************************)
(* Zylith ASP (Association-Set Provider): the deposit-event synchronizer   *)
(* (src/asp/src/syncer.rs), the HTTP handlers that touch the two Merkle    *)
(* trees and the checkpoint file (src/asp/src/main.rs), and the Merkle     *)
(* accumulator they call.  merkle.rs is not part of the sources at hand:   *)
(* the accumulator is modelled from section 4.2 of the specification and   *)
(* from the way syncer.rs and main.rs call it.                             *)
(***************************************************************************)
EXTENDS Integers, Sequences, FiniteSets, TLC

(***************************************************************************)
(* Bounds of the model.                                                    *)
(***************************************************************************)
\* blocks the chain can grow to
MaxBlock == 2
\* process restarts (crash or operator restart) in one behaviour
MaxRestarts == 1
\* events the RPC node puts on one page of get_events
PageSize == 1
\* operator inserts into the associated-set tree in one process run
MaxAssoc == 1
\* operations applied to an accumulator taken on its own
MaxOps == 4
\* characters of a secret or nullifier string
MaxLen == 5
\* calls of generate_commitment in a row
MaxCalls == 3
\* bits of a tick (the i32 of calldata.rs:203, scaled)
TickBits == 4

(***************************************************************************)
(* Program constants.                                                      *)
(***************************************************************************)
\* merkle::TREE_DEPTH, imported at main.rs:25 and passed to MerkleTree::new
\* at main.rs:87-88.  The model uses a depth-2 tree (capacity 4).
TREE_DEPTH == 2
\* syncer.rs:107
chunk_size == 1000
\* the empty-leaf constant zeros[0]
ZERO_LEAF == 0
\* Option::None of a continuation token / of an index
None == -1

RECURSIVE Pow2(_)
Pow2(n) == IF n = 0 THEN 1 ELSE 2 * Pow2(n - 1)

Capacity == Pow2(TREE_DEPTH)

Max(a, b) == IF a >= b THEN a ELSE b
Min(a, b) == IF a <= b THEN a ELSE b

(***************************************************************************)
(* Merkle accumulator (specification 3 and 4.2).                           *)
(***************************************************************************)
\* The 2-to-1 hash.  An injective pairing of naturals (Cantor pairing plus
\* one) stands for the collision-free hash: H(a,b) = H(c,d) iff a=c and b=d.
H(a, b) == ((a + b) * (a + b + 1)) \div 2 + b + 1

\* zeros[level] = H(zeros[level-1], zeros[level-1])
RECURSIVE Zeros(_)
Zeros(level) ==
    IF level = 0 THEN ZERO_LEAF ELSE H(Zeros(level - 1), Zeros(level - 1))

\* MerkleTree::new(depth): every node reads as the zero of its level,
\* root = zeros[depth], leaf_count = 0, empty commitment index map.
NewTree ==
    [ nodes |-> [l \in 0..TREE_DEPTH |-> [i \in 0..(Capacity - 1) |-> Zeros(l)]],
      leaf_count |-> 0,
      commitment_index |-> << >> ]

\* Recompute the ancestors of leaf `index` from level `level` up to the root.
RECURSIVE UpdatePath(_, _, _)
UpdatePath(nodes, index, level) ==
    IF level > TREE_DEPTH THEN nodes
    ELSE LET i == index \div Pow2(level)
             h == H(nodes[level - 1][2 * i], nodes[level - 1][2 * i + 1])
         IN UpdatePath([nodes EXCEPT ![level][i] = h], index, level + 1)

\* variant: every call counts one more leaf
NextCount_bump(leaf_count, index) == leaf_count + 1

\* leaf_count after a leaf was set at `index`
NextCount(leaf_count, index) == Max(leaf_count, index + 1)

\* insert_at_index(index, leaf): set the leaf, recompute its ancestor chain,
\* leaf_count = max(leaf_count, index + 1), index map: leaf -> index.
insert_at_index(tree, index, leaf) ==
    [ nodes |-> UpdatePath([tree.nodes EXCEPT ![0][index] = leaf], index, 1),
      leaf_count |-> NextCount(tree.leaf_count, index),
      commitment_index |-> (leaf :> index) @@ tree.commitment_index ]

\* insert(leaf) fails with CapacityExceeded when leaf_count = 2^depth.
IsFull(tree) == tree.leaf_count >= Capacity

\* variant: insert writes the first leaf
insert_front(tree, leaf) == insert_at_index(tree, 0, leaf)

\* insert(leaf): append at leaf_count (precondition: not IsFull).
insert(tree, leaf) == insert_at_index(tree, tree.leaf_count, leaf)

get_root(tree) == tree.nodes[TREE_DEPTH][0]
get_leaf_count(tree) == tree.leaf_count

find_commitment_index(tree, leaf) ==
    IF leaf \in DOMAIN tree.commitment_index
    THEN tree.commitment_index[leaf] ELSE None

\* variant: the path carries the node itself
Sibling_self(i) == i

\* index of the other child of the parent of node i
Sibling(i) == IF i % 2 = 0 THEN i + 1 ELSE i - 1

\* get_proof(index) -> Option<Proof>: << >> is None, <<proof>> is Some(proof).
\* path[l] is the sibling of the ancestor at level l-1, leaf level first;
\* path_indices[l] is 0 when that ancestor is a left child, 1 when right.
get_proof(tree, index) ==
    IF index >= tree.leaf_count THEN << >>
    ELSE << [ root |-> get_root(tree),
              leaf |-> tree.nodes[0][index],
              path |-> [l \in 1..TREE_DEPTH |->
                           tree.nodes[l - 1][Sibling(index \div Pow2(l - 1))]],
              path_indices |-> [l \in 1..TREE_DEPTH |->
                                   (index \div Pow2(l - 1)) % 2] ] >>

\* the leaves 0..leaf_count-1 as a sequence
Leaves(tree) == [i \in 1..tree.leaf_count |-> tree.nodes[0][i - 1]]

(***************************************************************************)
(* The chain, as the Chain Query Facade shows it.                          *)
(***************************************************************************)
Deposit(commitment, leaf_index, root) ==
    [keys |-> <<"Deposit">>, data |-> <<commitment, leaf_index, root>>]

\* The root the contract asserts with its k-th deposit: the root of the
\* on-chain tree after the commitments 1..k were appended.
RECURSIVE ChainTree(_)
ChainTree(k) == IF k = 0 THEN NewTree ELSE insert(ChainTree(k - 1), k)

\* the on-chain root after k deposits, for every k the tree has room for
ChainRoot == [k \in 0..Capacity |-> get_root(ChainTree(k))]

\* Block b >= 1 carries the deposit of commitment b at leaf index b-1.  Block 2
\* carries, before its deposit, an event with fewer than three data fields
\* and an event of another selector: the answer of the provider is taken as
\* it comes, the synchronizer checks the first key itself (syncer.rs:119).
EventsOfBlock(b) ==
    LET dep == Deposit(b, b - 1, ChainRoot[Min(b, Capacity)])
    IN IF b < 1 THEN << >>
       ELSE IF b = 2
       THEN << [keys |-> <<"Deposit">>, data |-> <<7>>],
               [keys |-> <<"Transfer">>, data |-> <<8, 0, 0>>],
               dep >>
       ELSE << dep >>

\* the events of blocks from..to in chain order
RECURSIVE EventsOfRange(_, _)
EventsOfRange(from, to) ==
    IF from > to THEN << >>
    ELSE EventsOfBlock(from) \o EventsOfRange(from + 1, to)

\* variant: the first key is not looked at
IsDeposit_anykey(event) == Len(event.data) >= 3

\* lines 119 and 127: the first key is the deposit selector and there are
\* at least three data fields
IsDeposit(event) ==
    /\ Len(event.keys) > 0
    /\ event.keys[1] = "Deposit"
    /\ Len(event.data) >= 3

\* commitments of the well-formed deposit events of a sequence, in order
RECURSIVE CommitmentsOf(_)
CommitmentsOf(events) ==
    IF events = << >> THEN << >>
    ELSE IF IsDeposit(Head(events))
         THEN <<Head(events).data[1]>> \o CommitmentsOf(Tail(events))
         ELSE CommitmentsOf(Tail(events))

DepositsIn(from, to) == CommitmentsOf(EventsOfRange(from, to))

\* provider.get_events(filter, continuation_token, chunk_size): the page that
\* starts at the token's offset, and the token of the next page (None after
\* the last one).
PageStart(token) == IF token = None THEN 0 ELSE token
PageLen == Min(PageSize, chunk_size)
get_events(filter, token) ==
    LET all == EventsOfRange(filter.from_block, filter.to_block)
        lo  == PageStart(token)
        hi  == Min(lo + PageLen, Len(all))
    IN [ events |-> SubSeq(all, lo + 1, hi),
         continuation_token |-> IF hi < Len(all) THEN hi ELSE None ]

(***************************************************************************)
(* State.                                                                  *)
(***************************************************************************)
VARIABLES
    head,        \* latest block number the RPC node reports
    stateFile,   \* last_synced_block stored in asp_state.json (0: no file)
    trees,       \* AppState: "deposit" and "associated" MerkleTree
    locks,       \* the Mutex around each tree: holder and poison flag
    sync,        \* the synchronizer task: position and locals of run/sync_events
    runLog,      \* commitments the synchronizer passed to tree.insert this run
    handler,     \* get_deposit_index requests in flight
    restarts,    \* process restarts so far
    reply,       \* the answer to the last proof request
    ops,         \* tree operations applied so far (accumulator on its own)
    calls        \* answered calls, with their arguments and results, of the
                 \* functions and handlers taken on their own

\* the record of one answered call
Call(fn, args, result) == [fn |-> fn, args |-> args, result |-> result]

vars == <<head, stateFile, trees, locks, sync, runLog, handler, restarts, reply, ops, calls>>

TreeIds == {"deposit", "associated"}
HandlerIds == {"h1"}

\* variant: main hands the associated-set tree to the synchronizer
SyncerTree_associated == "associated"

\* Syncer::new(.., deposit_tree) at main.rs:98: the tree the synchronizer owns
SyncerTree == "deposit"

FreeLock == [holder |-> "none", poisoned |-> FALSE]

SyncInit ==
    [ pc |-> "load",
      last_synced_block |-> 0,   \* state.last_synced_block of run
      start_block |-> 0,         \* the value load_state returned
      from_block |-> 0,
      latest_block |-> 0,
      continuation_token |-> None,
      next_token |-> None,
      page |-> << >>,            \* events of events_page not yet looked at
      events_processed |-> 0,
      result |-> "None" ]        \* what sync_events returned to run

\* no proof request answered yet
NoReply == "none"

HandlerIdle == [pc |-> "idle", commitment |-> 0, index |-> 0, current_count |-> 0]

Init ==
    /\ head = 0
    /\ stateFile = 0
    /\ trees = [t \in TreeIds |-> NewTree]
    /\ locks = [t \in TreeIds |-> FreeLock]
    /\ sync = SyncInit
    /\ runLog = << >>
    /\ handler = [h \in HandlerIds |-> HandlerIdle]
    /\ restarts = 0
    /\ reply = NoReply
    /\ ops = << >>
    /\ calls = << >>

(***************************************************************************)
(* Mutex<MerkleTree>: lock().unwrap() and the guard's drop.                *)
(***************************************************************************)
\* lock() returns once no other task holds the mutex
CanLock(t) == locks[t].holder = "none"
\* the guard is bound: `who` holds the mutex of tree t
Acquire(l, t, who) == [l EXCEPT ![t].holder = who]
\* variant: the guard outlives its block
Release_kept(l, t) == l

\* the guard goes out of scope
Release(l, t) == [l EXCEPT ![t].holder = "none"]
\* a panic while the guard is held: the guard is dropped, the mutex poisoned
Poison(l, t) == [l EXCEPT ![t] = [holder |-> "none", poisoned |-> TRUE]]

(***************************************************************************)
(* The chain grows.                                                        *)
(***************************************************************************)
NewBlock ==
    /\ head < MaxBlock
    /\ head' = head + 1
    /\ UNCHANGED <<stateFile, trees, locks, sync, runLog, handler, restarts, reply, ops, calls>>

(***************************************************************************)
(* Syncer::run and Syncer::sync_events (syncer.rs:64-187).                 *)
(***************************************************************************)
\* load_state(): the stored last_synced_block, 0 when there is no file
load_state == stateFile

\* run, line 65: let mut state = Self::load_state()
SyncLoad ==
    /\ sync.pc = "load"
    /\ sync' = [sync EXCEPT !.pc = "start",
                            !.last_synced_block = load_state,
                            !.start_block = load_state]
    /\ UNCHANGED <<head, stateFile, trees, locks, runLog, handler, restarts, reply, ops, calls>>

\* variant: every iteration reads the checkpoint back from the state file
ScanFrom_stored(last_synced_block, stored) == stored

\* run, line 72: the argument of sync_events is the in-memory
\* state.last_synced_block; the file is read by load_state at line 65 only
ScanFrom(last_synced_block, stored) == last_synced_block

\* run, line 72: call sync_events(state.last_synced_block); line 88: the
\* block_number request is sent.
SyncStart ==
    /\ sync.pc = "start"
    /\ sync' = [sync EXCEPT !.pc = "awaitHead",
                            !.from_block = ScanFrom(sync.last_synced_block, load_state),
                            !.result = "None"]
    /\ UNCHANGED <<head, stateFile, trees, locks, runLog, handler, restarts, reply, ops, calls>>

\* variant: the filter starts at the checkpoint itself
FilterFrom_inclusive(from_block) == from_block

\* first block of the event filter, line 101
FilterFrom(from_block) == from_block + 1

EventFilter(s) ==
    [from_block |-> FilterFrom(s.from_block), to_block |-> s.latest_block]

\* sync_events returned: its locals are gone
Returned(s, result) ==
    [s EXCEPT !.pc = "sleep",
              !.result = result,
              !.from_block = 0,
              !.latest_block = 0,
              !.continuation_token = None,
              !.next_token = None,
              !.page = << >>,
              !.events_processed = 0]

\* run, lines 73-83, on Ok(new_last_block): advance the in-memory checkpoint
\* and save it when it grew; save_state ignores a failed write (written =
\* FALSE).  Then sleep.
RunOk(s, new_last_block, written) ==
    /\ sync' = [Returned(s, "Ok") EXCEPT
                         !.last_synced_block =
                             IF new_last_block > s.last_synced_block
                             THEN new_last_block ELSE s.last_synced_block]
    /\ stateFile' = IF new_last_block > s.last_synced_block /\ written
                    THEN new_last_block ELSE stateFile

\* variant: the head seen so far is taken as checkpoint and saved on an error
RunErr_saves(s) ==
    /\ sync' = [Returned(s, "Err") EXCEPT !.last_synced_block = s.latest_block]
    /\ stateFile' = s.latest_block

\* run, lines 79-83, on Err(e): log, sleep.
RunErr(s) ==
    /\ sync' = Returned(s, "Err")
    /\ stateFile' = stateFile

\* variant: the range is scanned although the checkpoint is at the head
UpToDate_strict(from_block, latest_block) == from_block > latest_block

\* line 90: nothing to scan when the checkpoint has reached the head
UpToDate(from_block, latest_block) == from_block >= latest_block

\* lines 88-105: block_number answered.
SyncHeadOk ==
    /\ sync.pc = "awaitHead"
    /\ LET s == [sync EXCEPT !.latest_block = head]
       IN IF UpToDate(s.from_block, s.latest_block)
          THEN RunOk(s, s.from_block, TRUE)
          ELSE /\ sync' = [s EXCEPT !.pc = "awaitPage"]
               /\ stateFile' = stateFile
    /\ UNCHANGED <<head, trees, locks, runLog, handler, restarts, reply, ops, calls>>

\* line 88: block_number failed, `?` returns the error.
SyncHeadErr ==
    /\ sync.pc = "awaitHead"
    /\ RunErr(sync)
    /\ UNCHANGED <<head, trees, locks, runLog, handler, restarts, reply, ops, calls>>

\* lines 112-115: a page of events arrives.
SyncPageOk ==
    /\ sync.pc = "awaitPage"
    /\ LET events_page == get_events(EventFilter(sync), sync.continuation_token)
       IN sync' = [sync EXCEPT !.pc = "events",
                               !.page = events_page.events,
                               !.next_token = events_page.continuation_token]
    /\ UNCHANGED <<head, stateFile, trees, locks, runLog, handler, restarts, reply, ops, calls>>

\* line 115: get_events failed, `?` returns the error.
SyncPageErr ==
    /\ sync.pc = "awaitPage"
    /\ RunErr(sync)
    /\ UNCHANGED <<head, trees, locks, runLog, handler, restarts, reply, ops, calls>>

\* lines 119-121 and 171-173: an event that is no well-formed deposit.
SyncSkip ==
    /\ sync.pc = "events"
    /\ sync.page # << >>
    /\ ~IsDeposit(Head(sync.page))
    /\ sync' = [sync EXCEPT !.page = Tail(sync.page)]
    /\ UNCHANGED <<head, stateFile, trees, locks, runLog, handler, restarts, reply, ops, calls>>

\* line 143: self.tree.lock().unwrap(); panics when the mutex is poisoned.
SyncLock ==
    /\ sync.pc = "events"
    /\ sync.page # << >>
    /\ IsDeposit(Head(sync.page))
    /\ CanLock(SyncerTree)
    /\ IF locks[SyncerTree].poisoned
       THEN /\ sync' = [sync EXCEPT !.pc = "panicked"]
            /\ locks' = locks
       ELSE /\ sync' = [sync EXCEPT !.pc = "locked"]
            /\ locks' = Acquire(locks, SyncerTree, "syncer")
    /\ UNCHANGED <<head, stateFile, trees, runLog, handler, restarts, reply, ops, calls>>

\* lines 146-171: the tree call of the synchronizer for one event
SyncApply(tree, commitment, leaf_index) == insert(tree, commitment)

\* lines 146-147: the event's leaf_index is not the tree's next free index
IndexMismatch(tree, leaf_index) == leaf_index # get_leaf_count(tree)

\* lines 163-164: the computed root is not the root the event asserts
RootMismatch(computed_root, expected_root) == computed_root # expected_root

\* variant: a discrepancy ends the iteration with an error
Proceeds_unlessMismatch(index_mismatch, root_mismatch) ==
    ~(index_mismatch \/ root_mismatch)

\* lines 148-151 and 165-168: both discrepancies are printed with eprintln!
\* and nothing else; the loop goes on with the next event
Proceeds(index_mismatch, root_mismatch) == TRUE

\* lines 146-171: insert the commitment, count it, drop the guard.  insert
\* returns the root as a plain value, so its CapacityExceeded failure can only
\* be a panic: the task ends with the guard held.
SyncInsert ==
    /\ sync.pc = "locked"
    /\ LET event == Head(sync.page)
           commitment == event.data[1]
           leaf_index == event.data[2]
           expected_root == event.data[3]
           applied == SyncApply(trees[SyncerTree], commitment, leaf_index)
       IN IF IsFull(trees[SyncerTree])
          THEN /\ sync' = [sync EXCEPT !.pc = "panicked"]
               /\ locks' = Poison(locks, SyncerTree)
               /\ UNCHANGED <<trees, runLog>>
          ELSE /\ trees' = [trees EXCEPT ![SyncerTree] = applied]
               /\ runLog' = Append(runLog, commitment)
               /\ sync' =
                    IF Proceeds(IndexMismatch(trees[SyncerTree], leaf_index),
                                RootMismatch(get_root(applied), expected_root))
                    THEN [sync EXCEPT !.pc = "events",
                                      !.page = Tail(sync.page),
                                      !.events_processed = sync.events_processed + 1]
                    ELSE Returned(sync, "Err")
               /\ locks' = Release(locks, SyncerTree)
    /\ UNCHANGED <<head, stateFile, handler, restarts, reply, ops, calls>>

\* variant: the loop is left after the first page
IsLastPage_first(token) == TRUE

\* line 177: the page without a continuation token is the last one
IsLastPage(token) == token = None

\* variant: the next request starts again without a token
NextToken_none(token) == None

\* line 176: continuation_token = events_page.continuation_token
NextToken(token) == token

\* lines 176-186 and run 73-83: the page is done; fetch the next one, or
\* return Ok(latest_block) to run.
SyncPageDone ==
    /\ sync.pc = "events"
    /\ sync.page = << >>
    /\ IF IsLastPage(sync.next_token)
       THEN \E written \in BOOLEAN : RunOk(sync, sync.latest_block, written)
       ELSE /\ sync' = [sync EXCEPT !.pc = "awaitPage",
                                    !.continuation_token = NextToken(sync.next_token)]
            /\ stateFile' = stateFile
    /\ UNCHANGED <<head, trees, locks, runLog, handler, restarts, reply, ops, calls>>

\* line 83: the 5 s sleep is over, the loop starts again.
SyncWake ==
    /\ sync.pc = "sleep"
    /\ sync' = [sync EXCEPT !.pc = "start"]
    /\ UNCHANGED <<head, stateFile, trees, locks, runLog, handler, restarts, reply, ops, calls>>

SyncerNext ==
    \/ SyncLoad
    \/ SyncStart
    \/ SyncHeadOk
    \/ SyncHeadErr
    \/ SyncPageOk
    \/ SyncPageErr
    \/ SyncSkip
    \/ SyncLock
    \/ SyncInsert
    \/ SyncPageDone
    \/ SyncWake

(***************************************************************************)
(* GET /deposit/index/:commitment (main.rs:294-397).                       *)
(***************************************************************************)
\* commitments clients ask for: the one deposited in block 2 (leaf index 1)
\* and one never deposited
RequestCommitments == {2, 9}

\* blockchain.find_commitment_in_events(commitment): the leaf index of the
\* Deposit event that carries the commitment, None when the chain has none.
\* (Declared in main.rs:341 by its call; its body is not in the sources.)
find_commitment_in_events(commitment) ==
    LET hits == { i \in 1..Len(EventsOfRange(1, head)) :
                    /\ IsDeposit(EventsOfRange(1, head)[i])
                    /\ EventsOfRange(1, head)[i].data[1] = commitment }
    IN IF hits = {} THEN None
       ELSE EventsOfRange(1, head)[CHOOSE i \in hits : \A j \in hits : i <= j].data[2]

\* lines 316-341: look the commitment up under the lock; answer from the
\* local tree, or release the lock and search the contract events.
GdiCheck(h, commitment) ==
    /\ handler[h].pc = "idle"
    /\ CanLock("deposit")
    /\ ~locks["deposit"].poisoned
    /\ IF find_commitment_index(trees["deposit"], commitment) # None
       THEN handler' = handler
       ELSE handler' = [handler EXCEPT ![h] =
                [HandlerIdle EXCEPT !.pc = "awaitSearch", !.commitment = commitment]]
    /\ locks' = Release(Acquire(locks, "deposit", h), "deposit")
    /\ UNCHANGED <<head, stateFile, trees, sync, runLog, restarts, reply, ops, calls>>

\* lines 341-343 and 378-390: the search answered.
GdiSearchOk(h) ==
    /\ handler[h].pc = "awaitSearch"
    /\ LET index == find_commitment_in_events(handler[h].commitment)
       IN handler' = [handler EXCEPT ![h] =
              IF index = None THEN HandlerIdle
              ELSE [@ EXCEPT !.pc = "found", !.index = index]]
    /\ UNCHANGED <<head, stateFile, trees, locks, sync, runLog, restarts, reply, ops, calls>>

\* lines 391-395: the search failed.
GdiSearchErr(h) ==
    /\ handler[h].pc = "awaitSearch"
    /\ handler' = [handler EXCEPT ![h] = HandlerIdle]
    /\ UNCHANGED <<head, stateFile, trees, locks, sync, runLog, restarts, reply, ops, calls>>

\* lines 347-350: read leaf_count and zeros[0] under the lock, release it.
\* On a poisoned mutex lock().unwrap() panics and the request ends.
GdiReadCount(h) ==
    /\ handler[h].pc = "found"
    /\ CanLock("deposit")
    /\ handler' = [handler EXCEPT ![h] =
           IF locks["deposit"].poisoned THEN HandlerIdle
           ELSE [@ EXCEPT !.pc = "counted",
                          !.current_count = get_leaf_count(trees["deposit"])]]
    /\ locks' = IF locks["deposit"].poisoned THEN locks
                ELSE Release(Acquire(locks, "deposit", h), "deposit")
    /\ UNCHANGED <<head, stateFile, trees, sync, runLog, restarts, reply, ops, calls>>

\* line 353: take the lock again.
GdiLock(h) ==
    /\ handler[h].pc = "counted"
    /\ CanLock("deposit")
    /\ IF locks["deposit"].poisoned
       THEN /\ handler' = [handler EXCEPT ![h] = HandlerIdle]
            /\ locks' = locks
       ELSE /\ handler' = [handler EXCEPT ![h].pc = "locked"]
            /\ locks' = Acquire(locks, "deposit", h)
    /\ UNCHANGED <<head, stateFile, trees, sync, runLog, restarts, reply, ops, calls>>

\* lines 356-362: insert_at_index(current_count + i, zero_leaf) for i in 0..gaps
RECURSIVE FillGaps(_, _, _)
FillGaps(tree, from, to) ==
    IF from >= to THEN tree
    ELSE FillGaps(insert_at_index(tree, from, Zeros(0)), from + 1, to)

\* lines 356-369: what the handler does to the tree under the second lock
GdiWrite(tree, index, current_count, commitment) ==
    LET filled == IF index > current_count
                  THEN FillGaps(tree, current_count, index) ELSE tree
    IN IF index = get_leaf_count(filled)
       THEN insert(filled, commitment)
       ELSE insert_at_index(filled, index, commitment)

\* lines 353-377: fill the gaps, insert the commitment, drop the guard.
GdiFill(h) ==
    /\ handler[h].pc = "locked"
    /\ trees' = [trees EXCEPT !["deposit"] =
           GdiWrite(@, handler[h].index, handler[h].current_count,
                    handler[h].commitment)]
    /\ locks' = Release(locks, "deposit")
    /\ handler' = [handler EXCEPT ![h] = HandlerIdle]
    /\ UNCHANGED <<head, stateFile, sync, runLog, restarts, reply, ops, calls>>

GetDepositIndex ==
    \E h \in HandlerIds :
        \/ \E commitment \in RequestCommitments : GdiCheck(h, commitment)
        \/ GdiSearchOk(h)
        \/ GdiSearchErr(h)
        \/ GdiReadCount(h)
        \/ GdiLock(h)
        \/ GdiFill(h)

(***************************************************************************)
(* POST /deposit/resync (main.rs:252-292).                                 *)
(***************************************************************************)
\* Write {"last_synced_block": from_block} to asp_state.json; a failed write
\* is answered with status 500 and leaves the file as it was.
ForceResync ==
    /\ \E from_block \in 0..MaxBlock, written \in BOOLEAN :
           stateFile' = IF written THEN from_block ELSE stateFile
    /\ UNCHANGED <<head, trees, locks, sync, runLog, handler, restarts, reply, ops, calls>>

\* The same request with its response recorded: the body's from_block, the
\* status of the answer, and the run of the process that served it.
ForceResyncAnswered ==
    /\ \E from_block \in 0..MaxBlock, written \in BOOLEAN :
           /\ stateFile' = IF written THEN from_block ELSE stateFile
           /\ calls' = << Call("force_resync", <<from_block>>,
                               [success |-> written, run |-> restarts]) >>
    /\ UNCHANGED <<head, trees, locks, sync, runLog, handler, restarts, reply, ops>>

(***************************************************************************)
(* POST /associated/insert (main.rs:452-478).                              *)
(***************************************************************************)
AssocValues == {5}

\* state.associated_tree at main.rs:468: the tree the operator insert writes
InsertTree == "associated"

\* lines 468-477: lock, insert, answer leaf_count - 1 and the new root.
InsertAssociated ==
    /\ \E commitment \in AssocValues :
        /\ CanLock(InsertTree)
        /\ ~locks[InsertTree].poisoned
        /\ get_leaf_count(trees[InsertTree]) < MaxAssoc
        /\ trees' = [trees EXCEPT ![InsertTree] = insert(@, commitment)]
        /\ locks' = Release(Acquire(locks, InsertTree, "operator"), InsertTree)
    /\ UNCHANGED <<head, stateFile, sync, runLog, handler, restarts, reply, ops, calls>>

(***************************************************************************)
(* GET /deposit/proof/:index (main.rs:183-217) and                         *)
(* GET /associated/proof/:index (main.rs:423-433).                         *)
(***************************************************************************)
\* indices clients ask for: every leaf position and one past the capacity
ProofIndices == 0..Capacity

\* match tree.get_proof(index): Some(proof) is served as Json(proof) with
\* status 200, None with status 404
ProofResponse(proof) == IF proof = << >> THEN "NOT_FOUND" ELSE "OK"

\* lock().unwrap(), get_proof, the response, the guard dropped at the end of
\* the handler.  On a poisoned mutex unwrap() panics: the request task ends
\* and the client gets no response.
ProofRequest(t, index) ==
    /\ CanLock(t)
    /\ reply' = IF locks[t].poisoned THEN "panic"
                ELSE ProofResponse(get_proof(trees[t], index))
    /\ locks' = IF locks[t].poisoned THEN locks
                ELSE Release(Acquire(locks, t, "reader"), t)
    /\ UNCHANGED <<head, stateFile, trees, sync, runLog, handler, restarts, ops, calls>>

GetDepositProof == \E index \in ProofIndices : ProofRequest("deposit", index)

GetAssociatedProof == \E index \in ProofIndices : ProofRequest("associated", index)

(***************************************************************************)
(* The process ends (crash or operator restart) and main starts again      *)
(* (main.rs:59-104): new empty trees, a new synchronizer task; only         *)
(* asp_state.json and the chain survive.                                   *)
(***************************************************************************)
Restart ==
    /\ restarts < MaxRestarts
    /\ restarts' = restarts + 1
    /\ trees' = [t \in TreeIds |-> NewTree]
    /\ locks' = [t \in TreeIds |-> FreeLock]
    /\ sync' = SyncInit
    /\ runLog' = << >>
    /\ handler' = [h \in HandlerIds |-> HandlerIdle]
    /\ reply' = NoReply
    /\ UNCHANGED <<head, stateFile, ops, calls>>

Next ==
    \/ NewBlock
    \/ SyncerNext
    \/ GetDepositIndex
    \/ ForceResync
    \/ InsertAssociated
    \/ Restart

Spec == Init /\ [][Next]_vars

\* The synchronizer alone: the chain, the synchronizer task and process
\* restarts, with no HTTP request served.
SyncOnlyNext ==
    \/ NewBlock
    \/ SyncerNext
    \/ Restart

SyncSpec == Init /\ [][SyncOnlyNext]_vars

\* The proof endpoints served while the two writers of main.rs:98 and
\* main.rs:468 insert: the synchronizer and the operator insert.
QueryNext ==
    \/ NewBlock
    \/ SyncerNext
    \/ InsertAssociated
    \/ GetDepositProof
    \/ GetAssociatedProof
    \/ Restart

QuerySpec == Init /\ [][QueryNext]_vars

\* POST /deposit/resync served while the synchronizer of main.rs:98 runs,
\* and the restart its response asks for.
ResyncNext ==
    \/ NewBlock
    \/ SyncerNext
    \/ ForceResyncAnswered
    \/ Restart

ResyncSpec == Init /\ [][ResyncNext]_vars

(***************************************************************************)
(* The accumulator on its own: any sequence of at most MaxOps calls of     *)
(* insert and insert_at_index on a new tree.                               *)
(***************************************************************************)
\* leaf values the calls carry
LeafValues == {1, 2}

\* the tree the calls are applied to
OpTree == "deposit"

\* tree.insert(leaf) on a tree that is not full
TreeInsert ==
    /\ Len(ops) < MaxOps
    /\ ~IsFull(trees[OpTree])
    /\ \E leaf \in LeafValues :
           /\ trees' = [trees EXCEPT ![OpTree] = insert(@, leaf)]
           /\ ops' = Append(ops, [op |-> "insert",
                                  index |-> get_leaf_count(trees[OpTree]),
                                  leaf |-> leaf])
    /\ UNCHANGED <<head, stateFile, locks, sync, runLog, handler, restarts, reply, calls>>

\* tree.insert_at_index(index, leaf)
TreeInsertAt ==
    /\ Len(ops) < MaxOps
    /\ \E index \in 0..(Capacity - 1), leaf \in LeafValues :
           /\ trees' = [trees EXCEPT ![OpTree] = insert_at_index(@, index, leaf)]
           /\ ops' = Append(ops, [op |-> "insert_at_index",
                                  index |-> index,
                                  leaf |-> leaf])
    /\ UNCHANGED <<head, stateFile, locks, sync, runLog, handler, restarts, reply, calls>>

TreeNext ==
    \/ TreeInsert
    \/ TreeInsertAt

TreeSpec == Init /\ [][TreeNext]_vars

(***************************************************************************)
(* generate_commitment (commitment.rs:14-41) and what it calls.  Strings   *)
(* are sequences of characters.  The model keeps the proportions of the    *)
(* source at one byte for thirty-two: a field element buffer of one byte   *)
(* (two hexadecimal digits), a field modulus of six bits (two bits under   *)
(* the buffer, as the 254 bits of BN254 are under 256) and a mask of two   *)
(* bits (a digit under the buffer, as the 63 digits of MASK are under 64). *)
(***************************************************************************)
\* bytes of the buffer of parse_felt_to_fr (32 in commitment.rs:67)
FELT_BYTES == 1

\* the modulus of ark_bn254::Fr, scaled: a prime of 6 bits
FR_MODULUS == 53

\* variant: a mask as wide as the buffer
MASK_wide == <<"f", "f">>

\* const MASK, commitment.rs:9, scaled: "3" followed by 62 "f" there, "3" here
MASK == <<"3">>

HexChars ==
    <<"0", "1", "2", "3", "4", "5", "6", "7",
      "8", "9", "a", "b", "c", "d", "e", "f">>

\* char::to_digit(16), None for a character that is no hexadecimal digit
to_digit(c) ==
    IF \E v \in 1..16 : HexChars[v] = c
    THEN (CHOOSE v \in 1..16 : HexChars[v] = c) - 1
    ELSE None

RECURSIVE ParseDigits(_, _)
ParseDigits(s, acc) ==
    IF s = << >> THEN acc
    ELSE IF to_digit(Head(s)) = None THEN None
    ELSE ParseDigits(Tail(s), 16 * acc + to_digit(Head(s)))

\* BigUint::from_str_radix(s, 16): None (Err) for the empty string and for a
\* string with a character that is no digit
from_str_radix(s) == IF s = << >> THEN None ELSE ParseDigits(s, 0)

\* str::trim_start_matches("0x"): every leading repetition of "0x" is removed
RECURSIVE trim_start_matches(_)
trim_start_matches(s) ==
    IF Len(s) >= 2 /\ s[1] = "0" /\ s[2] = "x"
    THEN trim_start_matches(SubSeq(s, 3, Len(s)))
    ELSE s

\* BigUint::to_bytes_be: the big-endian bytes, one zero byte for zero
RECURSIVE to_bytes_be(_)
to_bytes_be(big) ==
    IF big < 256 THEN <<big>>
    ELSE Append(to_bytes_be(big \div 256), big % 256)

\* the number a big-endian byte string denotes
RECURSIVE from_bytes_be(_)
from_bytes_be(bytes) ==
    IF bytes = << >> THEN 0
    ELSE 256 * from_bytes_be(SubSeq(bytes, 1, Len(bytes) - 1)) + bytes[Len(bytes)]

\* commitment.rs:66-70: the last min(len, 32) bytes are copied to the end of
\* a zeroed buffer
FillBuf(bytes) ==
    LET len == Min(Len(bytes), FELT_BYTES)
    IN [i \in 1..(FELT_BYTES - len) |-> 0]
       \o SubSeq(bytes, Len(bytes) - len + 1, Len(bytes))

\* Fr::from_be_bytes_mod_order
from_be_bytes_mod_order(buf) == from_bytes_be(buf) % FR_MODULUS

\* parse_felt_to_fr, commitment.rs:60-73: None is Err
parse_felt_to_fr(hex_str) ==
    LET cleaned == trim_start_matches(hex_str)
        big == from_str_radix(cleaned)
    IN IF big = None THEN None
       ELSE from_be_bytes_mod_order(FillBuf(to_bytes_be(big)))

\* variant: one hasher is kept and has absorbed the inputs of earlier calls
new_circom_shared == Len(calls)

\* Poseidon::<Fr>::new_circom(2): a new hasher, nothing absorbed
new_circom == 0

\* PoseidonHasher::hash(&[a, b]) of a hasher in state `hasher`: a stand-in
\* permutation-like mix over the scaled field
PoseidonHash(hasher, a, b) ==
    (a * a * a + 5 * a * b + 3 * b * b + 7 * b + 11 * hasher + 1) % FR_MODULUS

\* bitwise and of two naturals
RECURSIVE BitAnd(_, _)
BitAnd(x, y) ==
    IF x = 0 \/ y = 0 THEN 0
    ELSE 2 * BitAnd(x \div 2, y \div 2) + (x % 2) * (y % 2)

\* format!("{:x}", n): the hexadecimal digits of n, no leading zeros, "0" for 0
RECURSIVE LowerHex(_)
LowerHex(n) ==
    IF n < 16 THEN <<HexChars[n + 1]>>
    ELSE Append(LowerHex(n \div 16), HexChars[(n % 16) + 1])

\* Result<String, String>: Ok(string), or Err with no commitment
Ok(string) == [ok |-> TRUE, value |-> string]
Err == [ok |-> FALSE, value |-> << >>]

\* generate_commitment, commitment.rs:14-41
generate_commitment(secret, nullifier, amount) ==
    LET mask == from_str_radix(MASK)
        secret_fr == parse_felt_to_fr(secret)
        nullifier_fr == parse_felt_to_fr(nullifier)
        amount_fr == amount % FR_MODULUS
        intermediate == PoseidonHash(new_circom, secret_fr, nullifier_fr)
        result == PoseidonHash(new_circom, intermediate, amount_fr)
        safe_val == BitAnd(result, mask)
    IN IF mask = None THEN Err
       ELSE IF secret_fr = None THEN Err
       ELSE IF nullifier_fr = None THEN Err
       ELSE Ok(<<"0", "x">> \o LowerHex(safe_val))

\* characters the strings of the requests are made of: two digits, the "x"
\* of the prefix, and a character that is no digit
Alphabet == {"0", "f", "x", "g"}

\* every string of at most MaxLen characters
FeltStrings == UNION { [1..n -> Alphabet] : n \in 0..MaxLen }

\* amounts of the requests (u128, below the modulus)
Amounts == {0, 5}

\* a few strings for the argument that is not varied
FewStrings == { <<"0", "x", "f">>, <<"0">> }

\* One call of generate_commitment with any secret (or any nullifier) of at
\* most MaxLen characters.
Derive ==
    /\ calls = << >>
    /\ \E varied \in FeltStrings, other \in FewStrings,
          amount \in Amounts, first \in BOOLEAN :
           LET secret == IF first THEN varied ELSE other
               nullifier == IF first THEN other ELSE varied
           IN calls' = << Call("generate_commitment",
                               <<secret, nullifier, amount>>,
                               generate_commitment(secret, nullifier, amount)) >>
    /\ UNCHANGED <<head, stateFile, trees, locks, sync, runLog, handler,
                   restarts, reply, ops>>

DeriveSpec == Init /\ [][Derive]_vars

\* secrets and nullifiers of the repeated calls
NoteSecrets == { <<"0", "x", "0">>, <<"0", "x", "f">>, <<"g">> }
NoteNullifiers == { <<"0", "x", "f">>, <<"0">> }

\* Up to MaxCalls calls of generate_commitment, one after the other (the
\* callers are prepare_deposit, main.rs:632, and prepare_swap, main.rs:767).
DeriveAgain ==
    /\ Len(calls) < MaxCalls
    /\ \E secret \in NoteSecrets, nullifier \in NoteNullifiers, amount \in Amounts :
           calls' = Append(calls, Call("generate_commitment",
                                       <<secret, nullifier, amount>>,
                                       generate_commitment(secret, nullifier, amount)))
    /\ UNCHANGED <<head, stateFile, trees, locks, sync, runLog, handler,
                   restarts, reply, ops>>

CommitSpec == Init /\ [][DeriveAgain]_vars

(***************************************************************************)
(* i32_to_felt and the ticks of build_mint_liquidity_calldata              *)
(* (calldata.rs:141-176, 202-222).  A tick has TickBits bits where the      *)
(* source has 32, a u64 twice as many, and the field of FieldElement is    *)
(* wider than a u64.                                                       *)
(***************************************************************************)
\* i32::MIN and i32::MAX
TickMin == 0 - Pow2(TickBits - 1)
TickMax == Pow2(TickBits - 1) - 1
Ticks == TickMin..TickMax

\* the modulus of FieldElement (2^251 + 17 * 2^192 + 1 in the source), scaled:
\* a prime above every u64
FELT_PRIME == 4099

\* `x as u64` of an i32: sign extension
as_u64(x) == IF x >= 0 THEN x ELSE Pow2(2 * TickBits) + x

\* FieldElement::from(u64)
FieldElement_from(x) == x % FELT_PRIME

\* i32_to_felt, calldata.rs:203-222.  -value overflows for i32::MIN: a panic
\* in a build with overflow checks (None), i32::MIN again without them.
i32_to_felt(value, overflow_checks) ==
    IF value >= 0
    THEN FieldElement_from(as_u64(value))
    ELSE IF value = TickMin
         THEN IF overflow_checks THEN None
              ELSE FieldElement_from(as_u64(TickMin))
         ELSE FieldElement_from(as_u64(0 - value))

\* build_mint_liquidity_calldata, calldata.rs:141-176, with an empty proof,
\* no public inputs, liquidity 1 and commitment 0x1: the two array lengths,
\* the two ticks, the liquidity and the commitment.
build_mint_liquidity_calldata(tick_lower, tick_upper, overflow_checks) ==
    LET lower == i32_to_felt(tick_lower, overflow_checks)
        upper == i32_to_felt(tick_upper, overflow_checks)
    IN IF lower = None \/ upper = None
       THEN [panicked |-> TRUE, calldata |-> << >>]
       ELSE [panicked |-> FALSE, calldata |-> <<0, 0, lower, upper, 1, 1>>]

\* One call of build_mint_liquidity_calldata with any two ticks, in a build
\* with or without overflow checks.
BuildMintCalldata ==
    /\ calls = << >>
    /\ \E tick_lower \in Ticks, tick_upper \in Ticks, overflow_checks \in BOOLEAN :
           calls' = << Call("build_mint_liquidity_calldata",
                            <<tick_lower, tick_upper>>,
                            build_mint_liquidity_calldata(tick_lower, tick_upper,
                                                          overflow_checks)) >>
    /\ UNCHANGED <<head, stateFile, trees, locks, sync, runLog, handler,
                   restarts, reply, ops>>

CalldataSpec == Init /\ [][BuildMintCalldata]_vars

(***************************************************************************)
(* POST /associated/insert with its response (main.rs:452-478), served     *)
(* while the synchronizer runs.                                            *)
(***************************************************************************)
\* the commitment strings of the requests: two numbers, with and without the
\* prefix, and a string that is no number
InsertRequests == { <<"0", "x", "5">>, <<"6">>, <<"g">> }

\* variant: the index is the leaf count after the insert
LeafIndexOf_count(tree) == get_leaf_count(tree)

\* line 470: let leaf_index = tree.get_leaf_count() - 1, on the tree after
\* the insert
LeafIndexOf(tree) == get_leaf_count(tree) - 1

\* the responses: status 400 of line 463, and the Json of lines 472-476
BadRequest == [status |-> "BAD_REQUEST", leaf_index |-> None, new_root |-> None]
Inserted(leaf_index, new_root) ==
    [status |-> "OK", leaf_index |-> leaf_index, new_root |-> new_root]

\* lines 459-477: parse the commitment; lock, insert, read the leaf count,
\* answer; the guard is dropped when the handler returns.  An insert on a
\* full tree is left out here.
InsertAssociatedAnswered ==
    /\ Len(calls) < MaxCalls
    /\ \E commitment_str \in InsertRequests :
         LET commitment == from_str_radix(trim_start_matches(commitment_str))
         IN IF commitment = None
            THEN /\ calls' = Append(calls, Call("insert_associated",
                                                <<commitment_str>>, BadRequest))
                 /\ UNCHANGED <<trees, locks>>
            ELSE /\ CanLock(InsertTree)
                 /\ ~locks[InsertTree].poisoned
                 /\ ~IsFull(trees[InsertTree])
                 /\ trees' = [trees EXCEPT ![InsertTree] = insert(@, commitment)]
                 /\ locks' = Release(Acquire(locks, InsertTree, "operator"), InsertTree)
                 /\ calls' = Append(calls, Call("insert_associated",
                                   <<commitment_str>>,
                                   Inserted(LeafIndexOf(trees'[InsertTree]),
                                            get_root(trees'[InsertTree]))))
    /\ UNCHANGED <<head, stateFile, sync, runLog, handler, restarts, reply, ops>>

AssocNext ==
    \/ NewBlock
    \/ SyncerNext
    \/ InsertAssociatedAnswered

AssocSpec == Init /\ [][AssocNext]_vars

(***************************************************************************)
(* Properties.                                                             *)
(***************************************************************************)
\* the synchronizer is between two iterations
SyncIdle == sync.pc \in {"start", "sleep"}

\* the commitments the running iteration has inserted so far
IterLog == SubSeq(runLog, Len(runLog) - sync.events_processed + 1, Len(runLog))

\* the steps of one iteration of the loop of run
SyncIteration ==
    \/ SyncStart
    \/ SyncHeadOk
    \/ SyncHeadErr
    \/ SyncPageOk
    \/ SyncPageErr
    \/ SyncSkip
    \/ SyncLock
    \/ SyncInsert
    \/ SyncPageDone

\* C1: over the iterations of one process run, retried ones included, the
\* synchronizer inserts every deposit event exactly once: no commitment is
\* inserted twice, and between iterations every deposit of the blocks
\* start_block+1 .. last_synced_block has been inserted.
C1_EachEventOnce ==
    /\ \A i, j \in 1..Len(runLog) : i # j => runLog[i] # runLog[j]
    /\ SyncIdle =>
           LET due == DepositsIn(sync.start_block + 1, sync.last_synced_block)
           IN \A k \in 1..Len(due) : \E i \in 1..Len(runLog) : runLog[i] = due[k]

\* C2: a step of an iteration changes the checkpoint (in memory or in the
\* state file) only when every deposit event of every page of the range
\* from_block+1 .. latest_block has been inserted; every earlier step of the
\* iteration, a failing one included, leaves both as they were.
C2_CheckpointAfterRange ==
    [][ ( /\ SyncIteration
          /\ \/ stateFile' # stateFile
             \/ sync'.last_synced_block # sync.last_synced_block )
        => /\ sync.pc = "events"
           /\ sync.page = << >>
           /\ sync.from_block = sync.last_synced_block
           /\ IterLog = DepositsIn(sync.from_block + 1, sync.latest_block) ]_vars

\* C2 witness: an iteration over blocks 1..2 failed after its first page was
\* applied; the checkpoint is still 0 in memory and in the file
C2_Witness ==
    /\ sync.result = "Err"
    /\ head = 2
    /\ runLog = <<1>>
    /\ sync.last_synced_block = 0
    /\ stateFile = 0
    /\ restarts = 0

\* C3: the stored last_synced_block never decreases, whatever writes the
\* file, and a started run scans from the stored value plus one.
C3_FileNeverDecreases ==
    [][ /\ stateFile' >= stateFile
        /\ SyncLoad => FilterFrom(sync'.last_synced_block) = stateFile + 1 ]_vars

\* C4: whenever the synchronizer is idle with checkpoint c, the deposit tree
\* starts with the commitments of all deposit events of blocks 1..c, in
\* chain order.
C4_TreeMirrorsChain ==
    SyncIdle =>
        LET expected == DepositsIn(1, Min(sync.last_synced_block, head))
            tree == trees["deposit"]
        IN /\ get_leaf_count(tree) >= Len(expected)
           /\ \A i \in 1..Len(expected) : tree.nodes[0][i - 1] = expected[i]

\* C5: an iteration that starts at checkpoint c, sees head h > c and returns
\* Ok has inserted the deposits of blocks c+1..h, each once and in delivery
\* order, and leaves the checkpoint at h.
C5_ScansRangeOnce ==
    [][ ( /\ SyncPageDone
          /\ IsLastPage(sync.next_token) )
        => /\ sync.latest_block > sync.last_synced_block
           /\ IterLog = DepositsIn(sync.last_synced_block + 1, sync.latest_block)
           /\ sync'.last_synced_block = sync.latest_block
           /\ sync'.result = "Ok" ]_vars

\* C5 witness: an iteration from checkpoint 0 to head 2 has fetched its
\* four pages without a failure and is about to return
C5_Witness ==
    /\ sync.pc = "events"
    /\ sync.page = << >>
    /\ IsLastPage(sync.next_token)
    /\ sync.last_synced_block = 0
    /\ sync.latest_block = 2
    /\ sync.events_processed = 2
    /\ runLog = <<1, 2>>

\* C6: after the synchronizer applied the event {commitment, leaf_index} the
\* deposit tree holds the commitment at leaf_index, and
\* find_commitment_index(commitment) = leaf_index.
C6_EventAtItsIndex ==
    [][ ( /\ SyncInsert
          /\ sync'.pc = "events" )
        => LET commitment == Head(sync.page).data[1]
               leaf_index == Head(sync.page).data[2]
           IN /\ trees'["deposit"].nodes[0][leaf_index] = commitment
              /\ find_commitment_index(trees'["deposit"], commitment) = leaf_index ]_vars

\* C7: within a process run only the synchronizer changes the deposit tree.
C7_SyncerSoleWriter ==
    [][ trees'["deposit"] # trees["deposit"] => (SyncInsert \/ Restart) ]_vars

\* C8: no synchronizer step changes the root or the leaf count of the
\* associated-set tree; an operator insert leaves the root and the leaf count
\* of the deposit tree as they were; within a process run the associated-set
\* tree changes only by an operator insert.
C8_AssociatedFrame ==
    [][ /\ SyncerNext =>
               /\ get_root(trees'["associated"]) = get_root(trees["associated"])
               /\ get_leaf_count(trees'["associated"]) =
                      get_leaf_count(trees["associated"])
        /\ InsertAssociated =>
               /\ get_root(trees'["deposit"]) = get_root(trees["deposit"])
               /\ get_leaf_count(trees'["deposit"]) = get_leaf_count(trees["deposit"])
        /\ trees'["associated"] # trees["associated"] =>
               (InsertAssociated \/ Restart) ]_vars

\* C8 witness: the synchronizer has inserted deposits and the operator has
\* inserted into the associated set
C8_Witness ==
    /\ get_leaf_count(trees["associated"]) = 1
    /\ get_leaf_count(trees["deposit"]) = 2
    /\ runLog = <<1, 2>>

\* C9: a task that waits for the answer of a chain query (block number,
\* event page, event search) holds neither tree lock.
C9_NoLockAcrossRpc ==
    \A t \in TreeIds :
        /\ sync.pc \in {"awaitHead", "awaitPage"} => locks[t].holder # "syncer"
        /\ \A h \in HandlerIds :
               handler[h].pc = "awaitSearch" => locks[t].holder # h

\* C9 witness: the synchronizer waits for its second page, after an insert
\* under the lock, while a get_deposit_index request waits for its search
C9_Witness ==
    /\ sync.pc = "awaitPage"
    /\ sync.events_processed >= 1
    /\ \E h \in HandlerIds : handler[h].pc = "awaitSearch"

\* C10: the loop of the synchronizer never ends.
C10_LoopNeverEnds == sync.pc # "panicked"

\* C11: when the head the node reports is not above the checkpoint, the
\* iteration returns without an event query (the synchronizer goes to sleep,
\* it does not wait for a page) and leaves the deposit tree, the in-memory
\* checkpoint and the state file as they were.
C11_NothingToScan ==
    [][ ( /\ SyncHeadOk
          /\ head <= sync.last_synced_block )
        => /\ sync'.pc = "sleep"
           /\ sync'.result = "Ok"
           /\ trees' = trees
           /\ runLog' = runLog
           /\ sync'.last_synced_block = sync.last_synced_block
           /\ stateFile' = stateFile ]_vars

\* C11 witness: an iteration has returned Ok although the head (block 1) is
\* below the checkpoint (2, loaded from a state file a resync wrote)
C11_Witness ==
    /\ sync.pc = "sleep"
    /\ sync.result = "Ok"
    /\ head = 1
    /\ sync.last_synced_block = 2
    /\ stateFile # sync.last_synced_block

\* the pages of a filter from the page of `token` to the end, concatenated
RECURSIVE PagesFrom(_, _)
PagesFrom(filter, token) ==
    LET events_page == get_events(filter, token)
    IN IF events_page.continuation_token = None THEN events_page.events
       ELSE events_page.events \o PagesFrom(filter, events_page.continuation_token)

C13_MismatchNonFatal ==
    [][ /\ ( /\ SyncInsert
             /\ ~IsFull(trees[SyncerTree])
             /\ \/ IndexMismatch(trees[SyncerTree], Head(sync.page).data[2])
                \/ RootMismatch(get_root(trees'[SyncerTree]), Head(sync.page).data[3]) )
            => /\ sync'.pc = "events"
               /\ sync'.page = Tail(sync.page)
               /\ sync'.events_processed = sync.events_processed + 1
               /\ runLog' = Append(runLog, Head(sync.page).data[1])
        /\ ( /\ SyncPageDone
             /\ IsLastPage(sync.next_token)
             /\ RootMismatch(get_root(trees[SyncerTree]),
                             get_root(ChainTree(sync.latest_block))) )
            => /\ IterLog = DepositsIn(sync.from_block + 1, sync.latest_block)
               /\ sync'.last_synced_block = sync.latest_block
               /\ sync'.result = "Ok" ]_vars

\* C13 witness: the retried iteration inserted commitment 1 again (index 0
\* against leaf_count 1, root not the chain's), then commitment 2, and
\* returned Ok with the checkpoint at the head
C13_Witness ==
    /\ runLog = <<1, 1, 2>>
    /\ sync.pc = "sleep"
    /\ sync.result = "Ok"
    /\ sync.last_synced_block = 2
    /\ head = 2

\* C14: the in-memory checkpoint of a run never goes back and no step but
\* the return of an iteration changes it; an iteration starts its scan from
\* the in-memory checkpoint, whatever the state file holds; a return whose
\* write failed still advances the in-memory checkpoint and goes to sleep.
C14_WriteFailureKeepsMemory ==
    [][ /\ ~Restart => sync'.last_synced_block >= sync.last_synced_block
        /\ SyncStart
            => /\ sync'.from_block = sync.last_synced_block
               /\ FilterFrom(sync'.from_block) = sync.last_synced_block + 1
        /\ (SyncPageDone /\ IsLastPage(sync.next_token) /\ stateFile' # sync.latest_block)
            => /\ sync'.last_synced_block = sync.latest_block
               /\ sync'.pc = "sleep"
               /\ stateFile' = stateFile ]_vars

\* C14 witness: the write of checkpoint 1 failed (the file still holds 0) and
\* the next iteration of the same run asks for the events from block 2 on
C14_Witness ==
    /\ restarts = 0
    /\ stateFile = 0
    /\ sync.pc = "awaitPage"
    /\ sync.from_block = 1
    /\ EventFilter(sync).from_block = 2
    /\ sync.latest_block = 2

\* C15: a proof request for an index at or past leaf_count of its tree is
\* answered NOT_FOUND (no proof, no panic) and leaves both trees as they
\* were, for the deposit tree and for the associated-set tree, whatever the
\* synchronizer and the operator insert have done before.
C15_OutOfRangeIsAbsence ==
    [][ \A t \in TreeIds, index \in ProofIndices :
            ( /\ ProofRequest(t, index)
              /\ index >= get_leaf_count(trees[t]) )
            => /\ reply' = "NOT_FOUND"
               /\ trees' = trees ]_vars

\* fold a leaf with the siblings of a proof, level l first: the running hash
\* is the left input where path_indices is 0, the right input where it is 1
RECURSIVE Fold(_, _, _)
Fold(hash, proof, l) ==
    IF l > Len(proof.path) THEN hash
    ELSE Fold(IF proof.path_indices[l] = 0
              THEN H(hash, proof.path[l])
              ELSE H(proof.path[l], hash), proof, l + 1)

\* C16: in every state reached by insert and insert_at_index calls, for
\* every index below leaf_count get_proof returns a proof of that leaf with
\* TREE_DEPTH siblings whose fold in path_indices order is get_root().
C16_ProofFoldsToRoot ==
    \A i \in 0..(get_leaf_count(trees[OpTree]) - 1) :
        LET found == get_proof(trees[OpTree], i)
        IN /\ found # << >>
           /\ found[1].leaf = trees[OpTree].nodes[0][i]
           /\ Len(found[1].path) = TREE_DEPTH
           /\ Len(found[1].path_indices) = TREE_DEPTH
           /\ Fold(found[1].leaf, found[1], 1) = get_root(trees[OpTree])
           /\ found[1].root = get_root(trees[OpTree])

\* C16 witness: leaf 3 was set by insert_at_index over a gap and leaf 0 by
\* insert; the proof of index 3 is a right child at both levels, the proof
\* of index 1 is the proof of an unfilled leaf
C16_Witness ==
    /\ ops = << [op |-> "insert_at_index", index |-> 3, leaf |-> 2],
                [op |-> "insert_at_index", index |-> 0, leaf |-> 1] >>
    /\ get_proof(trees[OpTree], 3)[1].path_indices = <<1, 1>>
    /\ get_proof(trees[OpTree], 1)[1].leaf = ZERO_LEAF

\* the node (level, i) of the full tree over `leaves` padded with zeros[0]
RECURSIVE NodeOf(_, _, _)
NodeOf(leaves, level, i) ==
    IF level = 0
    THEN IF i + 1 <= Len(leaves) THEN leaves[i + 1] ELSE Zeros(0)
    ELSE H(NodeOf(leaves, level - 1, 2 * i), NodeOf(leaves, level - 1, 2 * i + 1))

\* C17: after N insert calls and no other call on a new tree, leaf_count is
\* N and get_root() is the root of the full tree whose first N leaves are the
\* inserted values in call order, the others zeros[0]; with no call the root
\* is zeros[TREE_DEPTH].
C17_SequentialInserts ==
    (\A k \in 1..Len(ops) : ops[k].op = "insert")
    => LET inserted == [k \in 1..Len(ops) |-> ops[k].leaf]
       IN /\ get_leaf_count(trees[OpTree]) = Len(ops)
          /\ get_root(trees[OpTree]) = NodeOf(inserted, TREE_DEPTH, 0)
          /\ ops = << >> => get_root(trees[OpTree]) = Zeros(TREE_DEPTH)

\* C17 witness: four inserts in a row have filled the depth-2 tree
C17_Witness ==
    /\ Len(ops) = Capacity
    /\ \A k \in 1..Len(ops) : ops[k].op = "insert"
    /\ [k \in 1..Len(ops) |-> ops[k].leaf] = <<2, 1, 2, 2>>
    /\ get_leaf_count(trees[OpTree]) = Capacity
    /\ get_root(trees[OpTree]) = H(H(2, 1), H(2, 2))

\* C18: after insert_at_index(i, v), a second insert_at_index(i, v) returns
\* the root the first call returned and leaves root, leaf_count and every
\* leaf as the first call left them.
C18_InsertAtIndexIdempotent ==
    [][ TreeInsertAt
        => LET first == ops'[Len(ops')]
               once == trees'[OpTree]
               twice == insert_at_index(once, first.index, first.leaf)
           IN /\ get_root(twice) = get_root(once)
              /\ get_leaf_count(twice) = get_leaf_count(once)
              /\ twice.nodes[0] = once.nodes[0] ]_vars

\* C18 witness: insert_at_index(1, 2) was called twice in a row on a tree
\* that held another value at index 1, and the root is that of one call
C18_Witness ==
    /\ Len(ops) = 3
    /\ ops[1] = [op |-> "insert_at_index", index |-> 1, leaf |-> 1]
    /\ ops[2] = [op |-> "insert_at_index", index |-> 1, leaf |-> 2]
    /\ ops[3] = ops[2]
    /\ get_leaf_count(trees[OpTree]) = 2
    /\ get_root(trees[OpTree]) = H(H(Zeros(0), 2), Zeros(1))

\* C19: find_commitment_index(v) right after insert(v) is the leaf_count
\* before the call (the synchronizer's insert, the operator's insert), and
\* right after the write of get_deposit_index for commitment v at the index
\* of its event it is that index; in every state every entry v -> i of the
\* index map of a tree points at a leaf that holds v.
C19_IndexMapExact ==
    [][ /\ (SyncInsert /\ sync'.pc = "events")
            => find_commitment_index(trees'[SyncerTree], Head(sync.page).data[1])
                   = get_leaf_count(trees[SyncerTree])
        /\ InsertAssociated
            => \E commitment \in AssocValues :
                   find_commitment_index(trees'[InsertTree], commitment)
                       = get_leaf_count(trees[InsertTree])
        /\ \A h \in HandlerIds :
               GdiFill(h)
               => find_commitment_index(trees'["deposit"], handler[h].commitment)
                      = handler[h].index
        /\ \A t \in TreeIds :
               \A leaf \in DOMAIN trees'[t].commitment_index :
                   trees'[t].nodes[0][trees'[t].commitment_index[leaf]] = leaf ]_vars

\* C20: insert on a full tree gives its caller an error value: the
\* synchronizer's insert step on a full deposit tree leaves the tree as it
\* was, the task alive and the mutex usable.
C20_FullInsertIsError ==
    [][ (SyncInsert /\ IsFull(trees[SyncerTree]))
        => /\ trees' = trees
           /\ sync'.pc # "panicked"
           /\ ~locks'[SyncerTree].poisoned ]_vars

Cleaned(str) == trim_start_matches(str)

\* the string is not a field element: empty, not hexadecimal, or a number
\* that is not below the modulus (the numbers wider than the buffer included)
Malformed(str) ==
    \/ Cleaned(str) = << >>
    \/ \E k \in 1..Len(Cleaned(str)) : to_digit(Cleaned(str)[k]) = None
    \/ from_str_radix(Cleaned(str)) >= FR_MODULUS

\* the mask of the claim: all bits but the top six of the buffer (2^250 - 1
\* for the 256 bits of the source)
ClaimedMask == Pow2(8 * FELT_BYTES - 6) - 1

\* C22: for a secret and a nullifier that are field elements, the result is
\* Ok and its digits are H2(H2(secret, nullifier), amount) and-ed with the
\* mask, a number below 2^250 (here: below ClaimedMask + 1).
C22_MaskedDoubleHash ==
    \A i \in 1..Len(calls) :
        LET secret == calls[i].args[1]
            nullifier == calls[i].args[2]
            amount == calls[i].args[3]
            result == calls[i].result
            digits == SubSeq(result.value, 3, Len(result.value))
        IN (~Malformed(secret) /\ ~Malformed(nullifier))
           => /\ result.ok
              /\ from_str_radix(digits) =
                     BitAnd(PoseidonHash(0,
                                PoseidonHash(0, from_str_radix(Cleaned(secret)),
                                                from_str_radix(Cleaned(nullifier))),
                                amount),
                            ClaimedMask)
              /\ from_str_radix(digits) < ClaimedMask + 1

\* C22 witness: the commitment of secret 0xf, nullifier 0x0f and amount 5
C22_Witness ==
    /\ Len(calls) = 1
    /\ calls[1].args = << <<"0", "x", "f">>, <<"0", "x", "0", "f">>, 5 >>
    /\ calls[1].result.ok
    /\ from_str_radix(SubSeq(calls[1].result.value, 3, Len(calls[1].result.value)))
           = BitAnd(PoseidonHash(0, PoseidonHash(0, 15, 15), 5), 3)

\* C23: a call whose secret or nullifier is not a field element returns an
\* error and no commitment.
C23_MalformedIsError ==
    \A i \in 1..Len(calls) :
        (Malformed(calls[i].args[1]) \/ Malformed(calls[i].args[2]))
        => /\ ~calls[i].result.ok
           /\ calls[i].result.value = << >>

\* C24: a returned commitment is "0x" followed by as many hexadecimal digits
\* as the buffer has (64 for the 32 bytes of the source): 66 characters.
C24_FixedWidthHex ==
    \A i \in 1..Len(calls) :
        calls[i].result.ok
        => /\ SubSeq(calls[i].result.value, 1, 2) = <<"0", "x">>
           /\ Len(calls[i].result.value) = 2 + 2 * FELT_BYTES

\* C25: when the last POST /deposit/resync of a run was answered with
\* success for from_block b, the synchronizer of the next run loads b as its
\* checkpoint (and so filters from b + 1), whatever the synchronizer of the
\* run that served the request did after it.
C25_ResyncTakesEffect ==
    [][ ( /\ SyncLoad
          /\ calls # << >>
          /\ calls[1].result.success
          /\ restarts = calls[1].result.run + 1 )
        => /\ sync'.last_synced_block = calls[1].args[1]
           /\ FilterFrom(ScanFrom(sync'.last_synced_block, load_state))
                  = calls[1].args[1] + 1 ]_vars

\* the absolute value of a tick
Abs(v) == IF v < 0 THEN 0 - v ELSE v

\* C26: in the calldata of build_mint_liquidity_calldata a negative tick v is
\* the field element PRIME - |v|, and two different ticks are two different
\* elements.
C26_NegativeTicksDistinct ==
    \A i \in 1..Len(calls) :
        LET tick_lower == calls[i].args[1]
            tick_upper == calls[i].args[2]
            calldata == calls[i].result.calldata
        IN ~calls[i].result.panicked
           => /\ tick_lower < 0 => calldata[3] = FELT_PRIME - Abs(tick_lower)
              /\ tick_upper < 0 => calldata[4] = FELT_PRIME - Abs(tick_upper)
              /\ tick_lower # tick_upper => calldata[3] # calldata[4]

\* the leaf at position i holds a commitment
HoldsCommitment(tree, i) ==
    i < get_leaf_count(tree) /\ tree.nodes[0][i] # Zeros(0)

\* C27: the write of get_deposit_index under its second lock changes no leaf
\* that holds a commitment, and the positions it fills with the empty-leaf
\* value are all at or beyond leaf_count at the moment of the write.
C27_GapFillSparesLeaves ==
    [][ \A h \in HandlerIds :
            GdiFill(h)
            => /\ \A i \in 0..(Capacity - 1) :
                      HoldsCommitment(trees["deposit"], i)
                      => trees'["deposit"].nodes[0][i] = trees["deposit"].nodes[0][i]
               /\ handler[h].index > handler[h].current_count
                      => handler[h].current_count >= get_leaf_count(trees["deposit"])
      ]_vars

\* C28: the step on which an iteration fails with a chain-query error (head
\* query or event page) returns Err with the in-memory checkpoint equal to
\* the one the iteration started from and with the state file untouched; no
\* step of an iteration other than its successful return touches either;
\* and but for a restart the in-memory checkpoint never decreases.
C28_ErrorKeepsCheckpoint ==
    [][ /\ (SyncHeadErr \/ SyncPageErr)
            => /\ sync'.result = "Err"
               /\ sync'.last_synced_block = sync.from_block
               /\ sync'.last_synced_block = sync.last_synced_block
               /\ stateFile' = stateFile
        /\ (SyncIteration /\ sync'.result # "Ok")
            => /\ sync'.last_synced_block = sync.last_synced_block
               /\ stateFile' = stateFile
        /\ ~Restart => sync'.last_synced_block >= sync.last_synced_block ]_vars

\* C28 witness: block 1 was scanned and saved, and the iteration for block 2
\* failed on a later event page after it had applied nothing
C28_Witness ==
    /\ sync.pc = "sleep"
    /\ sync.result = "Err"
    /\ head = 2
    /\ runLog = <<1>>
    /\ sync.last_synced_block = 1
    /\ stateFile = 1
    /\ restarts = 0

\* the event is no deposit the synchronizer can decode: no first key or one
\* that is not the deposit selector, or fewer than three data fields
MalformedEvent(event) ==
    \/ event.keys = << >>
    \/ Head(event.keys) # "Deposit"
    \/ Len(event.data) < 3

\* the commitments of the events of a sequence that are not malformed
RECURSIVE DecodableCommitments(_)
DecodableCommitments(events) ==
    IF events = << >> THEN << >>
    ELSE IF MalformedEvent(Head(events))
         THEN DecodableCommitments(Tail(events))
         ELSE <<Head(events).data[1]>> \o DecodableCommitments(Tail(events))

\* C29: the step of the synchronizer on a malformed event changes neither a
\* tree nor the processed-event count nor the checkpoint, and goes on with
\* the rest of the page; an iteration over a range that returns Ok has
\* inserted exactly the commitments of the events of the range that are not
\* malformed and sets the checkpoint to the head it read; and a malformed
\* event the synchronizer looks at is always of a block after the checkpoint.
C29_MalformedEventSkipped ==
    [][ /\ ( /\ SyncerNext
             /\ sync.pc = "events"
             /\ sync.page # << >>
             /\ MalformedEvent(Head(sync.page)) )
            => /\ trees' = trees
               /\ runLog' = runLog
               /\ sync'.events_processed = sync.events_processed
               /\ sync'.last_synced_block = sync.last_synced_block
               /\ sync'.pc = "events"
               /\ sync'.page = Tail(sync.page)
        /\ (SyncIteration /\ sync'.result = "Ok" /\ sync.latest_block > sync.from_block)
            => /\ IterLog = DecodableCommitments(
                                EventsOfRange(sync.from_block + 1, sync.latest_block))
               /\ sync'.last_synced_block = sync.latest_block
        /\ ( /\ sync'.pc = "events"
             /\ sync'.page # << >>
             /\ MalformedEvent(Head(sync'.page)) )
            => \E b \in (sync'.last_synced_block + 1)..sync'.latest_block :
                   \E k \in 1..Len(EventsOfBlock(b)) :
                       EventsOfBlock(b)[k] = Head(sync'.page) ]_vars

\* C29 witness: the iteration over blocks 1..2 has met the short event and
\* the event of another selector of block 2, has inserted the two deposits
\* and nothing else, and has moved the checkpoint to block 2
C29_Witness ==
    /\ sync.pc = "sleep"
    /\ sync.result = "Ok"
    /\ sync.start_block = 0
    /\ sync.last_synced_block = 2
    /\ runLog = <<1, 2>>
    /\ Leaves(trees["deposit"]) = <<1, 2>>
    /\ Leaves(trees["associated"]) = << >>

\* the request was answered with a leaf index
Succeeded(call) == call.result.status = "OK"

\* the tree that holds the commitments of the first n calls of a sequence,
\* appended in that order
RECURSIVE TreeOf(_, _)
TreeOf(log, n) ==
    IF n = 0 THEN NewTree
    ELSE insert(TreeOf(log, n - 1), from_str_radix(trim_start_matches(log[n].args[1])))

\* C30: an answered insert_associated returns as leaf_index the leaf count of
\* the associated tree just before its insert and as new_root the root just
\* after it; the k-th answered insert on an initially empty tree returns
\* index k - 1 and the root of the tree of the first k commitments, so n
\* inserts return exactly 0..n-1, whatever ran in between.
C30_InsertReturnsOwnIndex ==
    [][ /\ (InsertAssociatedAnswered /\ Succeeded(calls'[Len(calls')]))
            => /\ calls'[Len(calls')].result.leaf_index
                      = get_leaf_count(trees[InsertTree])
               /\ calls'[Len(calls')].result.new_root = get_root(trees'[InsertTree])
               /\ get_leaf_count(trees'[InsertTree])
                      = get_leaf_count(trees[InsertTree]) + 1
        /\ LET answered == SelectSeq(calls', Succeeded)
           IN /\ \A k \in 1..Len(answered) :
                     /\ answered[k].result.leaf_index = k - 1
                     /\ answered[k].result.new_root = get_root(TreeOf(answered, k))
              /\ { answered[k].result.leaf_index : k \in 1..Len(answered) }
                     = 0..(Len(answered) - 1)
              /\ get_leaf_count(trees'[InsertTree]) = Len(answered) ]_vars

\* C30 witness: two inserts were answered with the indices 0 and 1, a request
\* with a malformed commitment between them, while the synchronizer has put
\* a deposit into the other tree
C30_Witness ==
    /\ Len(calls) = 3
    /\ calls[1].result.status = "OK" /\ calls[1].result.leaf_index = 0
    /\ calls[2].result = BadRequest
    /\ calls[3].result.status = "OK" /\ calls[3].result.leaf_index = 1
    /\ calls[3].result.new_root = get_root(trees[InsertTree])
    /\ Leaves(trees[InsertTree]) = <<5, 6>>
    /\ Leaves(trees["deposit"]) = <<1>>

=============================================================================
